---- MODULE Spec2Model ----
(***************************************************************************)
(* Hermes MQTT server for Rhasspy ASR using Kaldi                          *)
(* (rhasspyasr_kaldi_hermes/__init__.py).                                  *)
(*                                                                         *)
(* One dispatch thread (the MQTT client thread running on_message) and one *)
(* transcribe_proc thread per TranscriberInfo.  The dispatch thread is     *)
(* split at the statements that touch state shared with a transcriber      *)
(* thread: result_event.wait, the read of info.result, info.result = None  *)
(* and result_event.clear().  Each transcriber thread is split at          *)
(* ready_event.wait, ready_event.clear, every frame_queue.get,             *)
(* info.result = result and result_event.set.                              *)
(***************************************************************************)
EXTENDS Integers, Sequences, FiniteSets, TLC

\* ---------------------------------------------------------------- bounds
MaxWorkers == 2          \* TranscriberInfo objects ever created
MaxInputs == 3           \* sessions registered plus audio frames routed

\* ------------------------------------------------------------- constants
sample_rate == 16000

SessionIds == {"s1", "s2"}
Sites == {"default", "kitchen"}
Absent == "<absent>"                 \* a JSON payload without a siteId key
SiteIdConfigs == {{}, {"default"}}   \* the siteIds constructor argument

None == <<>>                         \* Python None / Optional
Some(x) == <<x>>

Workers == 1..MaxWorkers
Incs == 1..MaxInputs                 \* registration numbers of sessions (history)

\* WAV messages: the frame rate of the header and the raw frames it carries.
\* "" is a WAV file with zero frames.
WavInputs ==
    { [framerate |-> 8000, frames |-> "a"],
      [framerate |-> 16000, frames |-> ""] }

\* ------------------------------------------------------------- variables
VARIABLES
    enabled,            \* self.enabled
    siteIds,            \* self.siteIds
    sessions,           \* self.sessions: insertion-ordered dict, as a sequence
    free_transcribers,  \* self.free_transcribers
    nworkers,           \* number of TranscriberInfo objects created
    info,               \* the fields of each TranscriberInfo
    thread,             \* each transcribe_proc thread: pc and locals
    dpc,                \* position of the dispatch thread
    dctx,               \* locals of the handler the dispatch thread is in
    ncaptured,          \* per registration: AsrTextCaptured messages published for it
    errors,             \* the AsrError messages published for the message on_message
                        \* handled last
    \* history variables
    nstarts,            \* sessions registered so far
    nframes,            \* frames routed to at least one session so far
    routed,             \* per registration: chunks routed before its first end trigger
    ended,              \* per registration: an end trigger has begun
    finished,           \* per registration: some finish_session call has returned
    sentinels,          \* per registration: sentinels put on a frame_queue for it
    constructions,      \* per worker: calls of transcriber_factory
    startSite,          \* per registration: the siteId of the StartListening that
                        \* made it ("": not recorded)
    lastMsg             \* the message on_message handled last: "toggleOff" (one that
                        \* passed the site filter), "rejected" (a StartListening or
                        \* StopListening that the site filter rejected), "stopRaised"
                        \* / "restartRaised" (a StopListening / restarting
                        \* StartListening whose finish_session raised),
                        \* "invalidFrame" (an AudioFrame whose payload
                        \* maybe_convert_wav cannot read) or "other"

vars == <<enabled, siteIds, sessions, free_transcribers, nworkers, info, thread,
          dpc, dctx, ncaptured, nstarts, nframes, routed, ended, finished, sentinels,
          constructions, lastMsg, errors, startSite>>

\* --------------------------------------------------------------- helpers
Last(s) == s[Len(s)]
Front(s) == SubSeq(s, 1, Len(s) - 1)

RECURSIVE Remove(_, _)
Remove(s, id) ==
    IF s = <<>> THEN <<>>
    ELSE IF Head(s).sessionId = id THEN Tail(s)
    ELSE <<Head(s)>> \o Remove(Tail(s), id)

HasSession(s, id) == \E i \in 1..Len(s) : s[i].sessionId = id
GetSession(s, id) == s[CHOOSE i \in 1..Len(s) : s[i].sessionId = id]

\* TranscriberInfo()
TranscriberInfo ==
    [ transcriber |-> FALSE,
      frame_queue |-> <<>>,
      ready_event |-> FALSE,
      result |-> None,
      result_event |-> FALSE,
      result_sent |-> FALSE ]

NoThread == [pc |-> "none", result |-> None]

NoCtx ==
    [ op |-> "none", sessionId |-> "", siteId |-> "",
      w |-> 0, inc |-> 0, rest |-> <<>>, chunk |-> "",
      cmds |-> [s \in SessionIds |-> FALSE], timedOut |-> FALSE,
      yielded |-> FALSE, raises |-> [s \in SessionIds |-> FALSE] ]

\* A queue item is the bytes put (None: the sentinel) and, as history, the
\* registration it was put for.
\* Python truthiness of an item taken from the queue: None and b"" are false.
Truthy(item) == item.data # None /\ item.data[1] # ""

\* ------------------------------------------------------ format normalizer
\* sox resampling to the required rate: 8 kHz frames become twice as many.
_convert_wav(wav) == IF wav.frames = "" THEN "" ELSE wav.frames \o wav.frames

maybe_convert_wav(wav) ==
    IF wav.framerate # sample_rate THEN _convert_wav(wav) ELSE wav.frames

\* ----------------------------------------------------------- site filter
\* (mutant) the filter lets every site through
_check_siteId_all(payloadSite) == TRUE

_check_siteId(payloadSite) ==
    IF siteIds # {}
    THEN (IF payloadSite = Absent THEN "default" ELSE payloadSite) \in siteIds
    ELSE TRUE

\* AsrStartListening(**json_payload).siteId / AsrStopListening(...).siteId
MessageSiteId(payloadSite) == IF payloadSite = Absent THEN "default" ELSE payloadSite

\* The audio frame topic filter of on_message.
AudioTopicAccepted(site) == siteIds = {} \/ site \in siteIds

ToggleOnTopic == "hermes/asr/toggleOn"
ToggleOffTopic == "hermes/asr/toggleOff"
StartTopic == "hermes/asr/startListening"
StopTopic == "hermes/asr/stopListening"
AudioTopic == "hermes/audioServer/+/audioFrame"

\* The enable/disable chain at the head of on_message.  Both branches
\* compare the topic with AsrToggleOn.topic().
EnabledAfter(topic, payloadSite) ==
    IF topic = ToggleOnTopic
    THEN (IF _check_siteId(payloadSite) THEN TRUE ELSE enabled)
    ELSE IF topic = ToggleOnTopic
    THEN (IF _check_siteId(payloadSite) THEN FALSE ELSE enabled)
    ELSE enabled

\* ------------------------------------------------------------ messages
TextCaptured(transcription, siteId, sessionId, inc, timedOut) ==
    [ type |-> "TextCaptured",
      text |-> Some(transcription.text),
      likelihood |-> transcription.likelihood,
      seconds |-> transcription.transcribe_seconds,
      siteId |-> siteId,
      sessionId |-> sessionId,
      \* history: the registration that emitted it, the registration whose
      \* item ended the stream the engine computed it from, how the wait ended
      inc |-> inc,
      owner |-> transcription.owner,
      timedOut |-> timedOut ]

\* AsrTextCaptured(text="", likelihood=0, seconds=0, ...): the literal empty
\* text is None here, apart from every text an engine returns.
EmptyTextCaptured(siteId, sessionId, inc, timedOut) ==
    [ type |-> "TextCaptured",
      text |-> None,
      likelihood |-> 0,
      seconds |-> 0,
      siteId |-> siteId,
      sessionId |-> sessionId,
      inc |-> inc,
      owner |-> 0,
      timedOut |-> timedOut ]

\* AsrError(error=..., context=repr(info.transcriber), siteId, sessionId);
\* w is history: the TranscriberInfo the failed call was working on.
AsrError(siteId, sessionId, w) ==
    [type |-> "AsrError", siteId |-> siteId, sessionId |-> sessionId, w |-> w]

\* ------------------------------------------------------------------ Init
Init ==
    /\ enabled \in BOOLEAN
    /\ siteIds \in SiteIdConfigs
    /\ sessions = <<>>
    /\ free_transcribers = <<>>
    /\ nworkers = 0
    /\ info = [w \in Workers |-> TranscriberInfo]
    /\ thread = [w \in Workers |-> NoThread]
    /\ dpc = "idle"
    /\ dctx = NoCtx
    /\ ncaptured = [i \in Incs |-> 0]
    /\ nstarts = 0
    /\ nframes = 0
    /\ routed = [i \in Incs |-> <<>>]
    /\ ended = [i \in Incs |-> FALSE]
    /\ finished = [i \in Incs |-> FALSE]
    /\ sentinels = [i \in Incs |-> 0]
    /\ constructions = [w \in Workers |-> 0]
    /\ lastMsg = "other"
    /\ errors = {}
    /\ startSite = [i \in Incs |-> ""]


\* -------------------------------------------------------- finish_session
\* (mutant) the result_sent guard is missing
NeedsFinish_always(i) == TRUE

\* `if not info.result_sent:` decides whether this call publishes.
NeedsFinish(i) == ~i.result_sent

\* info.frame_queue.put(None), with the history of the queue
PutSentinel(inf, g, w, inc) ==
    [ info |-> [inf EXCEPT ![w].frame_queue = Append(@, [data |-> None, owner |-> inc])],
      g |-> [g EXCEPT !.sentinels[inc] = @ + 1] ]

\* info.frame_queue.put(audio_data), with the histories of the queue and of
\* the session's routed chunks
PutChunk(inf, g, w, inc, chunk) ==
    [ info |-> [inf EXCEPT ![w].frame_queue =
                               Append(@, [data |-> Some(chunk), owner |-> inc])],
      g |-> [g EXCEPT !.routed[inc] = IF g.ended[inc] THEN @ ELSE Append(@, chunk)] ]

\* ---------------------------------------------------- handle_audio_frame
\* The loop over self.sessions.items(), run until it returns or blocks in
\* the result_event.wait of a finish_session call.  cmds[sessionId] is what
\* info.recorder.process_chunk answers for this chunk.
RECURSIVE RouteLoop(_, _, _, _, _)
RouteLoop(rest, inf, g, chunk, cmds) ==
    IF rest = <<>>
    THEN [info |-> inf, g |-> g, wait |-> FALSE, cur |-> 0, rest |-> <<>>]
    ELSE LET s == Head(rest)
             w == s.info
             p == PutChunk(inf, g, w, s.inc, chunk)
         IN  IF cmds[s.sessionId]
             THEN LET g1 == [p.g EXCEPT !.ended[s.inc] = TRUE]
                  IN  IF NeedsFinish(p.info[w])
                      THEN LET q == PutSentinel(p.info, g1, w, s.inc)
                           IN  [info |-> q.info, g |-> q.g, wait |-> TRUE,
                                cur |-> 1, rest |-> rest]
                      ELSE RouteLoop(Tail(rest), p.info,
                                     [g1 EXCEPT !.finished[s.inc] = TRUE], chunk, cmds)
             ELSE RouteLoop(Tail(rest), p.info, p.g, chunk, cmds)

\* No call of a collaborator raises.
NoRaises == [s \in SessionIds |-> FALSE]

\* (mutant) `try:` around the `for` loop: the first exception ends the loop
LoopAfterRaise_abort(rest) == <<>>

\* `except Exception as e:` inside the loop body: the loop goes on with the
\* next session
LoopAfterRaise(rest) == Tail(rest)

\* The loop where the body may raise: raises[sessionId] says that, for this
\* frame, a call made for the session after the put (recorder.process_chunk,
\* or recorder.stop at the head of finish_session) raises; the handler yields
\* an AsrError for the session.  errs are the errors yielded so far.
RECURSIVE RouteAll(_, _, _, _, _, _, _, _)
RouteAll(rest, inf, g, chunk, cmds, raises, site, errs) ==
    IF rest = <<>>
    THEN [info |-> inf, g |-> g, wait |-> FALSE, cur |-> 0, rest |-> <<>>, errs |-> errs]
    ELSE LET s == Head(rest)
         IN  IF raises[s.sessionId]
             THEN LET p == PutChunk(inf, g, s.info, s.inc, chunk)
                  IN  RouteAll(LoopAfterRaise(rest), p.info, p.g, chunk, cmds, raises, site,
                               errs \cup {AsrError(site, s.sessionId, s.info)})
             ELSE LET r == RouteLoop(<<s>>, inf, g, chunk, cmds)
                  IN  IF r.wait
                      THEN [info |-> r.info, g |-> r.g, wait |-> TRUE, cur |-> 1,
                            rest |-> rest, errs |-> errs]
                      ELSE RouteAll(Tail(rest), r.info, r.g, chunk, cmds, raises,
                                    site, errs)

Hist == [sentinels |-> sentinels, routed |-> routed, ended |-> ended, finished |-> finished]

\* Leave the loop: either blocked in the wait for session Head(r.rest), or finished.
ApplyRoute(r, site, chunk, cmds, raises) ==
    /\ info' = r.info
    /\ errors' = r.errs
    /\ sentinels' = r.g.sentinels
    /\ routed' = r.g.routed
    /\ ended' = r.g.ended
    /\ finished' = r.g.finished
    /\ IF r.wait
       THEN /\ dpc' = "wait"
            /\ dctx' = [NoCtx EXCEPT !.op = "frame",
                                     !.sessionId = Head(r.rest).sessionId,
                                     !.siteId = site,
                                     !.w = Head(r.rest).info,
                                     !.inc = Head(r.rest).inc,
                                     !.rest = Tail(r.rest),
                                     !.chunk = chunk,
                                     !.cmds = [s \in SessionIds |->
                                                 cmds[s] /\ HasSession(Tail(r.rest), s)],
                                     !.raises = [s \in SessionIds |->
                                                 raises[s] /\ HasSession(Tail(r.rest), s)]]
       ELSE /\ dpc' = "idle"
            /\ dctx' = NoCtx

handle_audio_frame(wav, site, cmds, raises) ==
    LET audio_data == maybe_convert_wav(wav)
        r == RouteAll(sessions, info, Hist, audio_data, cmds, raises, site, {})
    IN  ApplyRoute(r, site, audio_data, cmds, raises)

\* -------------------------------------------------------- start_listening
\* (mutant) the free pool is never consulted
ReusePooled_never(pool) == FALSE

\* `if self.free_transcribers:`
ReusePooled(pool) == pool # <<>>

\* Lines 110-183: take or create a TranscriberInfo, signal its thread,
\* register the session.  pool and inf are the pool and the workers as the
\* preceding statements of the handler left them.
BeginSession(s, pool, inf) ==
    LET reuse == ReusePooled(pool)
        w == IF reuse THEN Last(pool) ELSE nworkers + 1
    IN  /\ w \in Workers
        /\ free_transcribers' = IF reuse THEN Front(pool) ELSE pool
        /\ nworkers' = IF reuse THEN nworkers ELSE nworkers + 1
        /\ thread' = IF reuse THEN thread
                     ELSE [thread EXCEPT ![w] = [NoThread EXCEPT !.pc = "construct"]]
        /\ info' = [inf EXCEPT ![w].ready_event = TRUE]
        /\ sessions' = Append(sessions, [sessionId |-> s, info |-> w,
                                         inc |-> nstarts + 1])
        /\ nstarts' = nstarts + 1

\* --------------------------------------------------------- stop_listening
\* (mutant) self.sessions.get in place of self.sessions.pop
PopSession_keep(ss, s) == ss

\* `info = self.sessions.pop(message.sessionId, None)`
PopSession(ss, s) == Remove(ss, s)

\* The locals stop_listening still uses once finish_session has returned;
\* yielded: whether that call yielded a message.
AfterFinish(op, s, w, inc, yielded) ==
    [NoCtx EXCEPT !.op = op, !.sessionId = IF op = "start" THEN s ELSE "", !.w = w,
                  !.inc = inc, !.yielded = yielded]

\* stop_listening up to the first point where it touches state shared with
\* the transcriber thread after the sentinel: the wait, or (nothing to
\* publish) the reset.  op is "stop", or "start" for the implicit stop of a
\* restart, whose AsrStopListening carries the default siteId.
StopEntry(op, s, stopSite) ==
    LET sess == GetSession(sessions, s)
        w == sess.info
        g1 == [Hist EXCEPT !.ended[sess.inc] = TRUE]
    IN  /\ sessions' = PopSession(sessions, s)
        /\ ended' = g1.ended
        /\ routed' = routed
        /\ dctx' = IF NeedsFinish(info[w])
                    THEN [NoCtx EXCEPT !.op = op, !.sessionId = s, !.siteId = stopSite,
                                       !.w = w, !.inc = sess.inc]
                    ELSE AfterFinish(op, s, w, sess.inc, FALSE)
        /\ IF NeedsFinish(info[w])
           THEN LET q == PutSentinel(info, g1, w, sess.inc)
                IN  /\ info' = q.info
                    /\ sentinels' = q.g.sentinels
                    /\ finished' = finished
                    /\ dpc' = "wait"
           ELSE /\ info' = info
                /\ sentinels' = sentinels
                /\ finished' = [finished EXCEPT ![sess.inc] = TRUE]
                /\ dpc' = "reset"

\* ------------------------------------------------------------- on_message
dispatchVars == <<sessions, free_transcribers, nworkers, info, thread, dpc, dctx,
                  ncaptured, nstarts, nframes, routed, ended, finished, sentinels, constructions>>

PayloadSites == Sites \cup {Absent}

on_message_toggleOn(site) ==
    /\ dpc = "idle"
    /\ errors' = {}
    /\ lastMsg' = "other"
    /\ enabled' = EnabledAfter(ToggleOnTopic, site)
    /\ UNCHANGED <<siteIds, dispatchVars>>

on_message_toggleOff(site) ==
    /\ dpc = "idle"
    /\ errors' = {}
    /\ lastMsg' = IF _check_siteId(site) THEN "toggleOff" ELSE "other"
    /\ enabled' = EnabledAfter(ToggleOffTopic, site)
    /\ UNCHANGED <<siteIds, dispatchVars>>

on_message_startListening(s, site) ==
    /\ dpc = "idle"
    /\ errors' = {}
    /\ nstarts + nframes < MaxInputs
    /\ nstarts = 0 => s = "s1"      \* the ids are interchangeable
    /\ enabled' = EnabledAfter(StartTopic, site)
    /\ lastMsg' = IF enabled' /\ ~_check_siteId(site) THEN "rejected" ELSE "other"
    /\ UNCHANGED siteIds
    /\ IF enabled' /\ _check_siteId(site)
       THEN IF HasSession(sessions, s)
            THEN /\ StopEntry("start", s, "default")
                 /\ UNCHANGED <<free_transcribers, nworkers, thread, ncaptured,
                                nstarts, nframes, constructions>>
            ELSE /\ BeginSession(s, free_transcribers, info)
                 /\ UNCHANGED <<dpc, dctx, ncaptured, nframes, routed, ended,
                                finished, sentinels, constructions>>
       ELSE UNCHANGED dispatchVars

on_message_stopListening(s, site) ==
    /\ dpc = "idle"
    /\ errors' = {}
    /\ enabled' = EnabledAfter(StopTopic, site)
    /\ lastMsg' = IF enabled' /\ ~_check_siteId(site) THEN "rejected" ELSE "other"
    /\ UNCHANGED siteIds
    /\ IF enabled' /\ _check_siteId(site) /\ HasSession(sessions, s)
       THEN /\ StopEntry("stop", s, MessageSiteId(site))
            /\ UNCHANGED <<free_transcribers, nworkers, thread, ncaptured,
                           nstarts, nframes, constructions>>
       ELSE UNCHANGED dispatchVars

on_message_audioFrame(site, wav, cmds, raises) ==
    /\ dpc = "idle"
    /\ nstarts + nframes < MaxInputs
    /\ lastMsg' = "other"
    /\ enabled' = EnabledAfter(AudioTopic, site)
    /\ UNCHANGED siteIds
    /\ IF enabled' /\ AudioTopicAccepted(site)
       THEN /\ handle_audio_frame(wav, site, cmds, raises)
            /\ nframes' = IF sessions = <<>> THEN nframes ELSE nframes + 1
            /\ UNCHANGED <<sessions, free_transcribers, nworkers, thread,
                           ncaptured, nstarts, constructions>>
       ELSE /\ errors' = {}
            /\ UNCHANGED dispatchVars

OnToggleOn ==
    \E site \in PayloadSites : on_message_toggleOn(site) /\ UNCHANGED startSite

OnToggleOff ==
    \E site \in PayloadSites : on_message_toggleOff(site) /\ UNCHANGED startSite

OnStartListening ==
    \E s \in SessionIds, site \in PayloadSites :
        on_message_startListening(s, site) /\ UNCHANGED startSite

OnStopListening ==
    \E s \in SessionIds, site \in PayloadSites :
        on_message_stopListening(s, site) /\ UNCHANGED startSite

\* cmds: only a registered session has a recorder to report a command.
OnAudioFrame ==
    \E site \in Sites, wav \in WavInputs, cmds \in [SessionIds -> BOOLEAN] :
        /\ \A id \in SessionIds : cmds[id] => HasSession(sessions, id)
        /\ on_message_audioFrame(site, wav, cmds, NoRaises)
        /\ UNCHANGED startSite

\* ------------------------------------- finish_session, after the sentinel
msgVars == <<enabled, siteIds, lastMsg, startSite>>

\* info.result_event.wait(timeout=...) returns because the event is set
WaitSignalled ==
    /\ dpc = "wait"
    /\ info[dctx.w].result_event
    /\ dpc' = "read"
    /\ dctx' = [dctx EXCEPT !.timedOut = FALSE]
    /\ UNCHANGED <<msgVars, errors, sessions, free_transcribers, nworkers, info, thread,
                   ncaptured, nstarts, nframes, routed, ended, finished, sentinels, constructions>>

\* ... or because session_result_timeout seconds have passed
WaitTimeout ==
    /\ dpc = "wait"
    /\ ~info[dctx.w].result_event
    /\ dpc' = "read"
    /\ dctx' = [dctx EXCEPT !.timedOut = TRUE]
    /\ UNCHANGED <<msgVars, errors, sessions, free_transcribers, nworkers, info, thread,
                   ncaptured, nstarts, nframes, routed, ended, finished, sentinels, constructions>>

\* Lines 266-285: what finish_session yields for info.result
Transcribed(transcription, siteId, sessionId, inc, timedOut) ==
    IF transcription # None
    THEN TextCaptured(transcription[1], siteId, sessionId, inc, timedOut)
    ELSE EmptyTextCaptured(siteId, sessionId, inc, timedOut)

\* The message finish_session yields, and on_message publishes, when the
\* dispatch thread reads info.result in the current state.
Publishing ==
    Transcribed(info[dctx.w].result, dctx.siteId, dctx.sessionId, dctx.inc, dctx.timedOut)

\* transcription = info.result; yield; info.result_sent = True; then the
\* caller goes on: the frame loop with the next session, stop_listening
\* with the reset.
ReadResult ==
    /\ dpc = "read"
    /\ LET w == dctx.w
           inf1 == [info EXCEPT ![w].result_sent = TRUE]
           g1 == [Hist EXCEPT !.finished[dctx.inc] = TRUE]
       IN  /\ ncaptured' = [ncaptured EXCEPT ![dctx.inc] = @ + 1]
           /\ IF dctx.op = "frame"
              THEN ApplyRoute(RouteAll(dctx.rest, inf1, g1, dctx.chunk, dctx.cmds,
                                       dctx.raises, dctx.siteId, errors),
                              dctx.siteId, dctx.chunk, dctx.cmds, dctx.raises)
              ELSE /\ info' = inf1
                   /\ errors' = errors
                   /\ finished' = g1.finished
                   /\ dpc' = "reset"
                   /\ dctx' = AfterFinish(dctx.op, dctx.sessionId, w, dctx.inc, TRUE)
                   /\ UNCHANGED <<sentinels, routed, ended>>
    /\ UNCHANGED <<msgVars, sessions, free_transcribers, nworkers, thread,
                   nstarts, nframes, constructions>>

\* stop_listening: info.result = None
ResetResult ==
    /\ dpc = "reset"
    /\ info' = [info EXCEPT ![dctx.w].result = None]
    /\ dpc' = "clear"
    /\ UNCHANGED <<msgVars, errors, sessions, free_transcribers, nworkers, thread, dctx,
                   ncaptured, nstarts, nframes, routed, ended, finished, sentinels, constructions>>

\* stop_listening: info.result_event.clear(); info.result_sent = False;
\* self.free_transcribers.append(info); and, in a restart, the rest of
\* start_listening.
ResetEvent ==
    /\ dpc = "clear"
    /\ LET w == dctx.w
           inf1 == [info EXCEPT ![w].result_event = FALSE, ![w].result_sent = FALSE]
           pool1 == Append(free_transcribers, w)
       IN  IF dctx.op = "start"
           THEN BeginSession(dctx.sessionId, pool1, inf1)
           ELSE /\ info' = inf1
                /\ free_transcribers' = pool1
                /\ UNCHANGED <<sessions, nworkers, thread, nstarts>>
    /\ dpc' = "idle"
    /\ dctx' = NoCtx
    /\ UNCHANGED <<msgVars, errors, ncaptured, nframes, routed, ended, finished, sentinels,
                   constructions>>

\* -------------------------------------------------------- transcribe_proc
threadFrame == <<msgVars, errors, sessions, free_transcribers, nworkers, dpc, dctx, ncaptured, nstarts, nframes, routed, ended, finished, sentinels>>

\* info.transcriber = transcriber_factory()
ThreadConstruct(w) ==
    /\ thread[w].pc = "construct"
    /\ info' = [info EXCEPT ![w].transcriber = TRUE]
    /\ constructions' = [constructions EXCEPT ![w] = @ + 1]
    /\ thread' = [thread EXCEPT ![w].pc = "wait"]
    /\ UNCHANGED threadFrame

\* info.ready_event.wait()
ThreadReadyWait(w) ==
    /\ thread[w].pc = "wait"
    /\ info[w].ready_event
    /\ thread' = [thread EXCEPT ![w].pc = "clear"]
    /\ UNCHANGED <<threadFrame, info, constructions>>

\* info.ready_event.clear(); transcribe_stream starts with no frames
ThreadReadyClear(w) ==
    /\ thread[w].pc = "clear"
    /\ info' = [info EXCEPT ![w].ready_event = FALSE]
    /\ thread' = [thread EXCEPT ![w].pc = "stream"]
    /\ UNCHANGED <<threadFrame, constructions>>

\* What transcribe_stream returns for the frames the generator yielded: a
\* Transcription of exactly those frames.  owner is history: the
\* registration whose item ended the stream.
Transcription(frames, owner) ==
    [text |-> frames, likelihood |-> 1, transcribe_seconds |-> 1, owner |-> owner]

\* `while frames:` of audio_stream
StreamContinues(item) == Truthy(item)

\* audio_stream(frame_queue), run to its end: the number of items the
\* generator takes from the queue, the last of them the false item that ends
\* it; 0 while no false item is queued (the generator is not at its end yet).
RECURSIVE audio_stream(_)
audio_stream(q) ==
    IF q = <<>> THEN 0
    ELSE IF ~StreamContinues(Head(q)) THEN 1
    ELSE LET n == audio_stream(Tail(q)) IN IF n = 0 THEN 0 ELSE n + 1

Frames(q, n) == [k \in 1..(n - 1) |-> q[k].data[1]]

\* transcribe_stream consumes the generator and returns.  The gets of one
\* stream are taken as one step, at the moment the generator ends: a get
\* only removes the head of a queue that the dispatch thread only appends to.
ThreadGet(w) ==
    /\ thread[w].pc = "stream"
    /\ LET q == info[w].frame_queue
           n == audio_stream(q)
       IN  /\ n > 0
           /\ info' = [info EXCEPT ![w].frame_queue = SubSeq(q, n + 1, Len(q))]
           /\ thread' = [thread EXCEPT
                            ![w].pc = "store",
                            ![w].result = Some(Transcription(Frames(q, n), q[n].owner))]
    /\ UNCHANGED <<threadFrame, constructions>>

\* transcribe_stream raises while decoding the stream: `except Exception` is
\* outside `while True`, so transcribe_proc logs and returns.
ThreadEngineRaise(w) ==
    /\ thread[w].pc = "stream"
    /\ LET q == info[w].frame_queue
           n == audio_stream(q)
       IN  /\ n > 0
           /\ info' = [info EXCEPT ![w].frame_queue = SubSeq(q, n + 1, Len(q))]
    /\ thread' = [thread EXCEPT ![w].pc = "dead"]
    /\ UNCHANGED <<threadFrame, constructions>>

\* info.result = result
ThreadStore(w) ==
    /\ thread[w].pc = "store"
    /\ info' = [info EXCEPT ![w].result = thread[w].result]
    /\ thread' = [thread EXCEPT ![w].pc = "signal"]
    /\ UNCHANGED <<threadFrame, constructions>>

\* info.result_event.set(); back to the head of `while True`
ThreadSignal(w) ==
    /\ thread[w].pc = "signal"
    /\ info' = [info EXCEPT ![w].result_event = TRUE]
    /\ thread' = [thread EXCEPT ![w].pc = "wait", ![w].result = None]
    /\ UNCHANGED <<threadFrame, constructions>>

transcribe_proc(w) ==
    \/ ThreadConstruct(w)
    \/ ThreadReadyWait(w)
    \/ ThreadReadyClear(w)
    \/ ThreadGet(w)
    \/ ThreadEngineRaise(w)
    \/ ThreadStore(w)
    \/ ThreadSignal(w)

\* ------------------------------------------------------------------ Next
Next ==
    \/ OnToggleOn
    \/ OnToggleOff
    \/ OnStartListening
    \/ OnStopListening
    \/ OnAudioFrame
    \/ WaitSignalled
    \/ WaitTimeout
    \/ ReadResult
    \/ ResetResult
    \/ ResetEvent
    \/ \E w \in Workers : transcribe_proc(w)

Spec == Init /\ [][Next]_vars

\* ------------------------------------------- collaborators that may raise
\* stop_listening when finish_session raises at once (info.recorder.stop(),
\* line 257): the session is popped (line 197), lines 207-212 are skipped and
\* `except Exception` (lines 213-220) yields the AsrError.
StopRaised(s, stopSite) ==
    LET sess == GetSession(sessions, s)
    IN  /\ sessions' = PopSession(sessions, s)
        /\ ended' = [ended EXCEPT ![sess.inc] = TRUE]
        /\ errors' = {AsrError(stopSite, s, sess.info)}
        /\ UNCHANGED <<free_transcribers, nworkers, info, thread, ncaptured, nstarts,
                       nframes, routed, finished, sentinels, constructions>>

on_message_stopListening_raised(s, site) ==
    /\ dpc = "idle"
    /\ enabled' = EnabledAfter(StopTopic, site)
    /\ enabled' /\ _check_siteId(site) /\ HasSession(sessions, s)
    /\ lastMsg' = "stopRaised"
    /\ StopRaised(s, MessageSiteId(site))
    /\ UNCHANGED <<siteIds, dpc, dctx>>

\* start_listening of a registered id when the finish_session of its
\* implicit stop raises: stop_listening has caught the exception, and
\* start_listening goes on at line 110.
on_message_startListening_raised(s, site) ==
    /\ dpc = "idle"
    /\ nstarts + nframes < MaxInputs
    /\ free_transcribers # <<>> \/ nworkers < MaxWorkers
    /\ enabled' = EnabledAfter(StartTopic, site)
    /\ enabled' /\ _check_siteId(site) /\ HasSession(sessions, s)
    /\ lastMsg' = "restartRaised"
    /\ StopRaised(s, "default")
    /\ dpc' = "begin"
    /\ dctx' = [NoCtx EXCEPT !.op = "start", !.sessionId = s]
    /\ UNCHANGED siteIds

\* ... lines 110-183 of that start_listening
ResumeStart ==
    /\ dpc = "begin"
    /\ BeginSession(dctx.sessionId, free_transcribers, info)
    /\ dpc' = "idle"
    /\ dctx' = NoCtx
    /\ UNCHANGED <<msgVars, errors, ncaptured, nframes, routed, ended, finished, sentinels,
                   constructions>>

\* wave.open (or sox) raises on the payload: the exception leaves the
\* generator at line 228, outside its `try`, and on_message's
\* `except Exception` (lines 362-363) logs it.
on_message_audioFrame_invalid(site) ==
    /\ dpc = "idle"
    /\ enabled' = EnabledAfter(AudioTopic, site)
    /\ enabled' /\ AudioTopicAccepted(site)
    /\ lastMsg' = "invalidFrame"
    /\ errors' = {}
    /\ UNCHANGED <<siteIds, dispatchVars>>

OnStopListeningRaised ==
    \E s \in SessionIds, site \in PayloadSites :
        on_message_stopListening_raised(s, site) /\ UNCHANGED startSite

OnStartListeningRaised ==
    \E s \in SessionIds, site \in PayloadSites :
        on_message_startListening_raised(s, site) /\ UNCHANGED startSite

\* The loop body raises for some of the registered sessions.
OnAudioFrameRaised ==
    \E site \in Sites, wav \in WavInputs, cmds \in [SessionIds -> BOOLEAN],
       raises \in [SessionIds -> BOOLEAN] \ {NoRaises} :
        /\ \A id \in SessionIds : (cmds[id] \/ raises[id]) => HasSession(sessions, id)
        /\ on_message_audioFrame(site, wav, cmds, raises)
        /\ UNCHANGED startSite

OnAudioFrameInvalid ==
    \E site \in Sites : on_message_audioFrame_invalid(site) /\ UNCHANGED startSite

NextRaise ==
    \/ Next
    \/ OnStopListeningRaised
    \/ OnStartListeningRaised
    \/ ResumeStart
    \/ OnAudioFrameRaised
    \/ OnAudioFrameInvalid

\* AsrHermesMqtt(client, transcriber_factory): every site accepted, enabled
InitRaise == Init /\ enabled /\ siteIds = {}

SpecRaise == InitRaise /\ [][NextRaise]_vars

\* The handlers where only the body of handle_audio_frame's loop may raise.
NextRoute ==
    \/ OnStartListening
    \/ OnStopListening
    \/ OnAudioFrame
    \/ OnAudioFrameRaised
    \/ WaitSignalled
    \/ WaitTimeout
    \/ ReadResult
    \/ ResetResult
    \/ ResetEvent
    \/ \E w \in Workers : transcribe_proc(w)

SpecRoute == InitRaise /\ [][NextRoute]_vars


\* ------------------------------------------- the site a session began at
\* on_message for AsrStartListening, recording message.siteId of a
\* StartListening that registers its session at once.
OnStartListeningSited ==
    \E s \in SessionIds, site \in PayloadSites :
        /\ on_message_startListening(s, site)
        /\ startSite' = IF nstarts' # nstarts
                         THEN [startSite EXCEPT ![nstarts'] = MessageSiteId(site)]
                         ELSE startSite

NextSites ==
    \/ OnToggleOn
    \/ OnToggleOff
    \/ OnStartListeningSited
    \/ OnStopListening
    \/ OnAudioFrame
    \/ WaitSignalled
    \/ WaitTimeout
    \/ ReadResult
    \/ ResetResult
    \/ ResetEvent
    \/ \E w \in Workers : transcribe_proc(w)

SpecSites == Init /\ [][NextSites]_vars

\* ================================================================ claims

\* C1: every registration of a session id gets at most one AsrTextCaptured,
\* and exactly one as soon as some finish_session call for it has returned,
\* whatever end triggers (stop_listening, the recorder's end of command, a
\* restart of the id) occur and however often.
C1_ExactlyOneTextCaptured ==
    \A i \in Incs :
        /\ ncaptured[i] <= 1
        /\ finished[i] => ncaptured[i] = 1

\* An explicit stop has just gone through finish_session without yielding,
\* because the recorder's end of command had already published the one
\* message of this registration.
C1_Witness ==
    /\ dpc = "reset"
    /\ dctx.op = "stop"
    /\ ~dctx.yielded
    /\ ncaptured[dctx.inc] = 1

\* C2: whenever transcribe_stream has returned, the frames it was given are
\* exactly the chunks handle_audio_frame routed to the registration whose
\* item ended the stream, from its start to its first end trigger.
C2_EngineInputIsRouted ==
    \A w \in Workers :
        thread[w].result # None =>
            thread[w].result[1].text = routed[thread[w].result[1].owner]

\* C3: the Transcription published for a registration was computed from
\* that registration's own stream, never from another one's.
C3_ResultIsOwn ==
    (dpc = "read" /\ Publishing.text # None) => Publishing.owner = dctx.inc

\* C4: when the wait for result_event times out, or info.result is None,
\* finish_session publishes the empty AsrTextCaptured (and never an error).
C4_TimeoutYieldsEmpty ==
    (dpc = "read" /\ (dctx.timedOut \/ info[dctx.w].result = None)) =>
        Publishing = EmptyTextCaptured(dctx.siteId, dctx.sessionId, dctx.inc,
                                       dctx.timedOut)

\* C5: a registration creates a TranscriberInfo exactly when the free pool is
\* empty at `if self.free_transcribers:` and changes no construction count;
\* each transcribe_proc thread calls transcriber_factory once, as its first
\* step, and never again.
C5_PoolReuse ==
    /\ [](\A w \in Workers :
            /\ thread[w].pc = "none" <=> w > nworkers
            /\ constructions[w] = IF thread[w].pc \in {"none", "construct"} THEN 0 ELSE 1)
    /\ [][nstarts' # nstarts =>
            LET pool == IF dpc = "clear" THEN Append(free_transcribers, dctx.w)
                        ELSE free_transcribers
            IN  /\ constructions' = constructions
                /\ pool # <<>> => nworkers' = nworkers
                /\ pool = <<>> => nworkers' = nworkers + 1]_vars

\* A second registration has re-used the only TranscriberInfo ever created.
C5_Witness ==
    /\ nstarts >= 2
    /\ nworkers = 1
    /\ constructions[1] = 1
    /\ sessions # <<>>

\* C6: no TranscriberInfo is bound to two registered ids, none is twice in
\* the free pool, none is both in the free pool and bound.
C6_WorkerAssignment ==
    /\ \A i, j \in 1..Len(sessions) :
          i # j => /\ sessions[i].info # sessions[j].info
                   /\ sessions[i].sessionId # sessions[j].sessionId
    /\ \A i, j \in 1..Len(free_transcribers) :
          i # j => free_transcribers[i] # free_transcribers[j]
    /\ \A i \in 1..Len(sessions), j \in 1..Len(free_transcribers) :
          sessions[i].info # free_transcribers[j]

\* After a restart of an id, one TranscriberInfo is bound and another one is
\* in the free pool.
C6_Witness ==
    /\ nstarts = 3
    /\ Len(sessions) = 1
    /\ Len(free_transcribers) = 1
    /\ dpc = "idle"

\* C7: with a non-empty siteIds, a StartListening or StopListening whose
\* siteId (default "default") is not in it changes neither the sessions, the
\* pool, any TranscriberInfo or thread, nor publishes; with an empty siteIds,
\* a StartListening of any site registers the id and a StopListening of any
\* site removes it.
C7_SiteFilter ==
    [][dpc = "idle" => \A s \in SessionIds, site \in PayloadSites :
          /\ ( /\ siteIds # {}
               /\ MessageSiteId(site) \notin siteIds
               /\ \/ on_message_startListening(s, site)
                  \/ on_message_stopListening(s, site) )
             => UNCHANGED <<sessions, free_transcribers, nworkers, info, thread,
                            ncaptured, errors, sentinels, dpc>>
          /\ (siteIds = {} /\ enabled /\ on_message_startListening(s, site))
             => (HasSession(sessions', s) \/ dpc' = "wait" \/ dpc' = "reset")
          /\ ( /\ siteIds = {}
               /\ enabled
               /\ HasSession(sessions, s)
               /\ on_message_stopListening(s, site) )
             => ~HasSession(sessions', s)
      ]_vars

\* The site filter has just rejected a message while a session is registered.
C7_Witness ==
    /\ lastMsg = "rejected"
    /\ siteIds # {}
    /\ sessions # <<>>
    /\ dpc = "idle"

\* C8: once on_message has handled a ToggleOff that passes the site filter,
\* self.enabled is false.
C8_ToggleOffDisables == lastMsg = "toggleOff" => ~enabled

\* C9: a transcribe_proc thread never ends: after transcribe_stream raises
\* it is back at ready_event.wait().
C9_LoopNeverTerminates == \A w \in Workers : thread[w].pc # "dead"

\* C10: no chunk is put on a frame_queue for a registration whose sentinel
\* has already been put.
C10_SentinelLast ==
    [][\A w \in Workers :
          \A k \in (Len(info[w].frame_queue) + 1)..Len(info'[w].frame_queue) :
              LET item == info'[w].frame_queue[k]
              IN  item.data # None => sentinels[item.owner] = 0
      ]_vars

C12_FinishedIsRemoved ==
    \A k \in 1..Len(sessions) : ~finished[sessions[k].inc]

\* C13: when finish_session raises during stop_listening, exactly one
\* AsrError with the session's id is published, the session is out of
\* self.sessions, and its TranscriberInfo is in the free pool.
C13_WorkerKeptOnError ==
    lastMsg = "stopRaised" =>
        /\ Cardinality(errors) = 1
        /\ \A e \in errors :
              /\ ~HasSession(sessions, e.sessionId)
              /\ \E k \in 1..Len(free_transcribers) : free_transcribers[k] = e.w

\* The chunk of the frame being handled was put for session s as the first
\* new item of its queue.
ChunkPut(s, chunk) ==
    LET q == info[s.info].frame_queue
        qn == info'[s.info].frame_queue
    IN  /\ Len(qn) > Len(q)
        /\ qn[Len(q) + 1] = [data |-> Some(chunk), owner |-> s.inc]

\* What the loop body of handle_audio_frame owes session s for one frame.
Routed(s, site, chunk, cmds, raises) ==
    /\ ChunkPut(s, chunk)
    /\ raises[s.sessionId] => AsrError(site, s.sessionId, s.info) \in errors'
    /\ ~raises[s.sessionId] =>
          /\ \A e \in errors' \ errors : e.sessionId # s.sessionId
          /\ cmds[s.sessionId] => ended'[s.inc]

\* C14: in handle_audio_frame, whichever sessions' processing raises, the
\* handler yields an AsrError for each of them and every session the loop has
\* come to -- all of them once the handler is done -- has the chunk on its
\* queue and, unless it raised, its detector's end of command acted on.
\* (What the detector or the body would do for an id that is not registered
\* plays no part in a frame: the inputs are taken false there.)
C14_RouterIsolation ==
    [][/\ (dpc = "idle" /\ nframes' # nframes) =>
            \A site \in Sites, wav \in WavInputs, cmds \in [SessionIds -> BOOLEAN],
               raises \in [SessionIds -> BOOLEAN] :
                ( /\ \A id \in SessionIds :
                        (cmds[id] \/ raises[id]) => HasSession(sessions, id)
                  /\ on_message_audioFrame(site, wav, cmds, raises) ) =>
                    \A k \in 1..Len(sessions) :
                        (dpc' = "idle" \/ k <= Len(sessions) - Len(dctx'.rest)) =>
                            Routed(sessions[k], site, maybe_convert_wav(wav), cmds, raises)
       /\ (dpc = "read" /\ dctx.op = "frame") =>
            \A k \in 1..Len(dctx.rest) :
                (dpc' = "idle" \/ k <= Len(dctx.rest) - Len(dctx'.rest)) =>
                    Routed(dctx.rest[k], dctx.siteId, dctx.chunk, dctx.cmds, dctx.raises)
      ]_vars

\* A frame has been handled with two sessions registered: the body raised
\* for the first one, and the second one has the chunk on its queue.
C14_Witness ==
    /\ dpc = "idle"
    /\ Len(sessions) = 2
    /\ errors = {AsrError("kitchen", sessions[1].sessionId, sessions[1].info)}
    /\ \E k \in 1..Len(info[sessions[2].info].frame_queue) :
          LET item == info[sessions[2].info].frame_queue[k]
          IN  item.data # None /\ item.owner = sessions[2].inc

\* C15: an AudioFrame whose payload maybe_convert_wav cannot read is
\* reported by one AsrError.
C15_InvalidFrameReported == lastMsg = "invalidFrame" => Cardinality(errors) = 1

\* C16: the registration that ends a restart (start_listening of an id that
\* was registered) creates no TranscriberInfo and no thread, calls no
\* transcriber_factory, and leaves exactly one session with the id.
C16_RestartReusesWorker ==
    [][(dctx.op = "start" /\ dpc \in {"clear", "begin"} /\ dpc' = "idle") =>
          /\ nworkers' = nworkers
          /\ thread' = thread
          /\ constructions' = constructions
          /\ Cardinality({k \in 1..Len(sessions') :
                            sessions'[k].sessionId = dctx.sessionId}) = 1
      ]_vars

\* The items a transcriber thread takes from its queue in the step that ends
\* a stream.
Taken(w) ==
    SubSeq(info[w].frame_queue, 1,
           Len(info[w].frame_queue) - Len(info'[w].frame_queue))

\* C17: the frames transcribe_stream is given are the chunks taken from the
\* queue for the stream, in the order of the queue, none left out.
C17_FifoNoDrop ==
    [][\A w \in Workers :
          (thread[w].pc = "stream" /\ thread'[w].pc = "store") =>
              LET text == thread'[w].result[1].text
              IN  \A k \in 1..Len(Taken(w)) :
                      Taken(w)[k].data # None =>
                          (k <= Len(text) /\ text[k] = Taken(w)[k].data[1])
      ]_vars

\* C18: a stream ends only with the sentinel: the last item taken from the
\* queue when transcribe_stream's generator ends is None.
C18_StreamEndsAtSentinel ==
    [][\A w \in Workers :
          (thread[w].pc = "stream" /\ thread'[w].pc # "stream") =>
              Last(Taken(w)).data = None
      ]_vars

\* C19: a TranscriberInfo in the free pool whose thread is blocked in
\* ready_event.wait() has an empty frame_queue, no result, result_event
\* clear and result_sent false.
C19_CleanPool ==
    \A k \in 1..Len(free_transcribers) :
        LET w == free_transcribers[k]
        IN  (thread[w].pc = "wait" /\ ~info[w].ready_event) =>
                /\ info[w].frame_queue = <<>>
                /\ info[w].result = None
                /\ ~info[w].result_event
                /\ ~info[w].result_sent

\* C20: the AsrTextCaptured published for a registration carries the siteId
\* of the StartListening that made it.
C20_SiteOfStart ==
    (dpc = "read" /\ startSite[dctx.inc] # "") =>
        Publishing.siteId = startSite[dctx.inc]

====
